---- MODULE Spec2Model ----
(***************************************************************************)
(* Model of the Daikin smart AC climate entity                             *)
(* (custom_components/daikin_br/climate.py).                               *)
(*                                                                         *)
(* The entity mirrors the device's state (power, HVAC mode, temperatures,  *)
(* fan, swing, preset).  Two coroutines change the mirror: async_update    *)
(* (the periodic poll) and set_thing_state (a locally issued command).     *)
(* Both suspend at hass.async_add_executor_job while the blocking device   *)
(* call runs in the executor, so other coroutines run in between.          *)
(*                                                                         *)
(* A JSON object is a record whose absent keys hold None.                  *)
(***************************************************************************)
EXTENDS Integers, FiniteSets, Sequences, Bags, TLC

VARIABLES
    entity,      \* the DaikinClimate object's fields
    dev,         \* the status the device would report now
    jobs,        \* the bag of coroutines suspended in the executor
    applied,     \* number of commands the device has executed
    mirror_seq,  \* number of commands the mirrored state is known to reflect
    hist,        \* what the entity's last step did (see Did)
    hass         \* the host: hass.data[DOMAIN], the platform's entities, the
                 \* coordinator's last refresh (see NewHass)

vars == <<entity, dev, jobs, applied, mirror_seq, hist, hass>>

(***************************************************************************)
(* Values                                                                  *)
(***************************************************************************)

\* Python's None: the value dict.get returns for an absent key.
None == -1

HVAC_OFF == "off"
HVAC_FAN_ONLY == "fan_only"
HVAC_COOL == "cool"
HVAC_DRY == "dry"
HVAC_HEAT == "heat"
HVAC_AUTO == "auto"

PRESET_NONE == "none"
PRESET_ECO == "eco"
PRESET_BOOST == "boost"

SWING_OFF == "off"
SWING_VERTICAL == "vertical"

\* The port1 section with no key at all: what status.get("port1", {}) gives
\* when the status has no port1.
EmptyPort ==
    [power |-> None, mode |-> None, temperature |-> None, room_temp |-> None,
     fan |-> None, v_swing |-> None, econo |-> None, powerchill |-> None]

\* The dict {}.
EmptyDict == [has_port1 |-> FALSE, port1 |-> EmptyPort]

\* The status dicts with a port1 section whose fields range over the given sets.
StatusSet(P, M, T, R, F, V, E, C) ==
    [has_port1 : {TRUE},
     port1 : [power : P, mode : M, temperature : T, room_temp : R,
              fan : F, v_swing : V, econo : E, powerchill : C]]

\* status.get("port1", {})
Port1(status) == IF status.has_port1 THEN status.port1 ELSE EmptyPort

\* d.get(key, default) for a value v = d.get(key)
GetOr(v, default) == IF v = None THEN default ELSE v

\* Python truth of an integer or None
Truthy(v) == v # None /\ v # 0

(***************************************************************************)
(* The lookup tables                                                       *)
(***************************************************************************)

map_hvac_mode(hvac_value) ==
    CASE hvac_value = 0 -> HVAC_OFF
      [] hvac_value = 6 -> HVAC_FAN_ONLY
      [] hvac_value = 3 -> HVAC_COOL
      [] hvac_value = 2 -> HVAC_DRY
      [] hvac_value = 4 -> HVAC_HEAT
      [] hvac_value = 1 -> HVAC_AUTO
      [] OTHER -> HVAC_OFF

\* A fan table with the codes of medium and medium_high exchanged.
map_fan_speed_Exchanged(fan_value) ==
    CASE fan_value = 17 -> "auto"
      [] fan_value = 7 -> "high"
      [] fan_value = 5 -> "medium_high"
      [] fan_value = 6 -> "medium"
      [] fan_value = 4 -> "low_medium"
      [] fan_value = 3 -> "low"
      [] fan_value = 18 -> "quiet"
      [] OTHER -> "auto"

map_fan_speed(fan_value) ==
    CASE fan_value = 17 -> "auto"
      [] fan_value = 7 -> "high"
      [] fan_value = 6 -> "medium_high"
      [] fan_value = 5 -> "medium"
      [] fan_value = 4 -> "low_medium"
      [] fan_value = 3 -> "low"
      [] fan_value = 18 -> "quiet"
      [] OTHER -> "auto"

(***************************************************************************)
(* The entity                                                              *)
(***************************************************************************)

\* DaikinClimate.__init__
NewEntity ==
    [available |-> TRUE,
     power_state |-> 0,
     hvac_mode |-> HVAC_OFF,
     target_temperature |-> None,
     current_temperature |-> None,
     fan_mode |-> "auto",
     preset_mode |-> PRESET_NONE,
     swing_mode |-> SWING_OFF,
     skip_update |-> FALSE]

\* The mirrored fields of an entity.
Mirror(e) ==
    <<e.power_state, e.hvac_mode, e.target_temperature, e.current_temperature,
      e.fan_mode, e.swing_mode, e.preset_mode>>

\* A response handler that leaves the preset alone when neither flag is set.
PresetFromResponse_NoReset(previous, v_econo_value, v_powerchill_value) ==
    IF v_powerchill_value = 1 THEN PRESET_BOOST
    ELSE IF v_econo_value = 1 THEN PRESET_ECO
    ELSE previous

\* set_thing_state's three independent tests of econo and powerchill.
PresetFromResponse(previous, v_econo_value, v_powerchill_value) ==
    LET preset1 == IF v_econo_value = 1 THEN PRESET_ECO ELSE previous
        preset2 == IF v_powerchill_value = 1 THEN PRESET_BOOST ELSE preset1
    IN  IF v_econo_value = 0 /\ v_powerchill_value = 0 THEN PRESET_NONE ELSE preset2

\* A re-synchronization that shows the response's mode whatever its power.
SetThingStateSync_ShowsMode(e, response) ==
    LET port_status == Port1(response) IN
    [e EXCEPT
        !.power_state = port_status.power,
        !.hvac_mode = map_hvac_mode(port_status.mode),
        !.target_temperature = port_status.temperature,
        !.current_temperature = port_status.room_temp,
        !.fan_mode = map_fan_speed(port_status.fan),
        !.swing_mode = IF port_status.v_swing = 1 THEN SWING_VERTICAL ELSE SWING_OFF,
        !.preset_mode = PresetFromResponse(e.preset_mode,
                                           GetOr(port_status.econo, 0),
                                           GetOr(port_status.powerchill, 0)),
        !.skip_update = TRUE]

\* set_thing_state, from the response on: the mirror is re-synchronized from
\* the response and the next poll is to be skipped.
SetThingStateSync(e, response) ==
    LET port_status == Port1(response)
        power == port_status.power
        v_swing_value == GetOr(port_status.v_swing, 0)
        v_econo_value == GetOr(port_status.econo, 0)
        v_powerchill_value == GetOr(port_status.powerchill, 0)
    IN  [e EXCEPT
            !.power_state = power,
            !.hvac_mode = IF Truthy(power) THEN map_hvac_mode(port_status.mode)
                          ELSE HVAC_OFF,
            !.target_temperature = port_status.temperature,
            !.current_temperature = port_status.room_temp,
            !.fan_mode = map_fan_speed(port_status.fan),
            !.swing_mode = IF v_swing_value = 1 THEN SWING_VERTICAL ELSE SWING_OFF,
            !.preset_mode = PresetFromResponse(e.preset_mode, v_econo_value,
                                               v_powerchill_value),
            !.skip_update = TRUE]

\* A status handler that takes the mode field whatever the power is.
HvacFromStatus_IgnoresPower(power, mode_value) == map_hvac_mode(mode_value)

\* update_entity_properties' mapping of the power state to the HVAC mode.
HvacFromStatus(power, mode_value) ==
    IF power = 0 THEN HVAC_OFF ELSE map_hvac_mode(mode_value)

\* update_entity_properties(status)
update_entity_properties(e, status) ==
    LET port_status == Port1(status)
        power == GetOr(port_status.power, 0)
        mode_value == GetOr(port_status.mode, 0)
        v_swing_value == GetOr(port_status.v_swing, 0)
        v_econo_value == GetOr(port_status.econo, 0)
        v_powerchill_value == GetOr(port_status.powerchill, 0)
    IN  [e EXCEPT
            !.current_temperature = port_status.room_temp,
            !.target_temperature = port_status.temperature,
            !.power_state = power,
            !.hvac_mode = HvacFromStatus(power, mode_value),
            !.fan_mode = map_fan_speed(port_status.fan),
            !.swing_mode = IF v_swing_value = 1 THEN SWING_VERTICAL ELSE SWING_OFF,
            !.preset_mode = IF v_econo_value = 1 THEN PRESET_ECO
                            ELSE IF v_powerchill_value = 1 THEN PRESET_BOOST
                            ELSE PRESET_NONE,
            !.skip_update = TRUE]

(***************************************************************************)
(* Executor jobs                                                           *)
(***************************************************************************)

\* The exceptions the handlers tell apart, and any other.
Exceptions == {"InvalidDataException", "CommunicationErrorException", "Exception"}

\* One exception for each except clause.
CoreExceptions == {"CommunicationErrorException", "Exception"}

\* What a device call gave: a dict, a value that is no dict, or an exception.
Returned(status) == [kind |-> "dict", status |-> status]
NotADict == [kind |-> "notdict", status |-> EmptyDict]
Raised(exc) == [kind |-> exc, status |-> EmptyDict]
NoResult == [kind |-> "none", status |-> EmptyDict]

\* A coroutine suspended at async_add_executor_job, its device call not yet made.
Queued(kind, data) ==
    [kind |-> kind, st |-> "queued", data |-> data, res |-> NoResult, tag |-> 0]

\* The device call made: the coroutine is ready to resume with res.
Done(job, res, tag) == [job EXCEPT !.st = "done", !.res = res, !.tag = tag]

\* A set_thing_state that marks the entity available when the device answers.
SetThingStateResume_MarksAvailable(e, res) ==
    IF res.kind = "dict"
    THEN [SetThingStateSync(e, res.status) EXCEPT !.available = TRUE]
    ELSE e

\* A set_thing_state that marks the device off when the command fails.
SetThingStateResume_ResetsOnError(e, res) ==
    IF res.kind = "dict" THEN SetThingStateSync(e, res.status)
    ELSE [e EXCEPT !.power_state = 0, !.hvac_mode = HVAC_OFF]

\* set_thing_state resumed with the device call's result: any exception, the
\* AttributeError of response.get on a value that is no dict included, is
\* caught and logged before a field is assigned.
SetThingStateResume(e, res) ==
    IF res.kind = "dict" THEN SetThingStateSync(e, res.status) ELSE e

\* An async_update that keeps skipping once the flag is set.
AsyncUpdateSkipped_KeepsFlag(e) == e

\* async_update, skip flag set: the flag is cleared and nothing else happens.
AsyncUpdateSkipped(e) == [e EXCEPT !.skip_update = FALSE]

\* An async_update that has the next poll tick skipped after a failed read.
AsyncUpdateResume_SkipsAfterFailure(e, res) ==
    IF res.kind = "dict"
    THEN [update_entity_properties(e, res.status) EXCEPT !.available = TRUE]
    ELSE [e EXCEPT !.available = FALSE, !.skip_update = TRUE]

\* An async_update that does not mark the entity available again.
AsyncUpdateResume_NoRecovery(e, res) ==
    IF res.kind = "dict"
    THEN update_entity_properties(e, res.status)
    ELSE [e EXCEPT !.available = FALSE]

\* async_update resumed with the status read's result.
AsyncUpdateResume(e, res) ==
    IF res.kind = "dict"
    THEN [update_entity_properties(e, res.status) EXCEPT !.available = TRUE]
    ELSE [e EXCEPT !.available = FALSE]

\* async_write_ha_state calls of async_update from its resumption on: the one
\* of update_entity_properties when it ran, and async_update's own.
AsyncUpdateWrites(res) == IF res.kind = "dict" THEN 2 ELSE 1

\* async_write_ha_state calls of set_thing_state.
SetThingStateWrites(res) == IF res.kind = "dict" THEN 1 ELSE 0

(***************************************************************************)
(* History: what the entity's last step did.  op names the step, arg its   *)
(* argument (for a resumed async_update the availability before it, for a  *)
(* resumed set_thing_state the preset before it), writes counts its async_write_ha_state calls, sent holds the  *)
(* payload it handed to set_thing_state (<< >> when none).  cmd_pending    *)
(* tells that a command has succeeded since the last poll tick, after_cmd  *)
(* that the last poll tick was the first one after such a command, and     *)
(* mirror_src which step the mirrored state comes from, and last_tick what *)
(* the last poll tick did ("skip" or "read").                              *)
(***************************************************************************)

NoArg == "-"

InitHist ==
    [op |-> "init", arg |-> NoArg, writes |-> 0, sent |-> << >>,
     cmd_pending |-> FALSE, after_cmd |-> FALSE, mirror_src |-> "init",
     last_tick |-> "none"]

Did(op, arg, w, payloads) ==
    [hist EXCEPT !.op = op, !.arg = arg, !.writes = w, !.sent = payloads]

(***************************************************************************)
(* The host.  data is hass.data[DOMAIN], a dict from entry ids to entry     *)
(* data, and has_domain tells whether hass.data has the key DOMAIN at all;  *)
(* loaded is the set of entries set up and not unloaded since.  has_key     *)
(* tells whether the config entry handed to the climate platform has a      *)
(* device key (result is what the integration's last call returned), added counts the entities the platform has added, reads the  *)
(* status reads it has started and updates lists the statuses it has called *)
(* update_entity_properties with.  refresh is the outcome of the            *)
(* coordinator's last _async_update_data.  settled tells that the device's  *)
(* state has stopped changing, its status reads succeed and no command is   *)
(* issued any more.                                                         *)
(***************************************************************************)

NewHass ==
    [data |-> << >>, has_domain |-> FALSE, loaded |-> {}, result |-> "none",
     has_key |-> TRUE, added |-> 0, reads |-> 0, updates |-> << >>,
     refresh |-> NoResult, settled |-> FALSE]

(***************************************************************************)
(* Bounds                                                                  *)
(***************************************************************************)

\* Coroutines suspended in the executor at one time.
MaxInFlight == 2

\* Commands the device executes in one behaviour.
MaxApplied == 1

\* The statuses the device reports in the interleaving model.
DevStatuses ==
    StatusSet({0, 1}, {3}, {24}, {23}, {5}, {0}, {0}, {0}) \cup {EmptyDict}

\* The payload of the commands issued in the interleaving model.
CorePayloads == {[EmptyPort EXCEPT !.temperature = 24]}

(***************************************************************************)
(* The interleaving model: polls and commands                              *)
(***************************************************************************)

\* The bag jobs with job old replaced by job new.
Replace(old, new) == (jobs (-) SetToBag({old})) (+) SetToBag({new})

InFlight == BagToSet(jobs)

Init ==
    /\ entity = NewEntity
    /\ dev \in DevStatuses
    /\ jobs = EmptyBag
    /\ applied = 0
    /\ mirror_seq = 0
    /\ hist = InitHist
    /\ hass = NewHass

\* A poll tick that finds the skip flag set.
AsyncUpdateSkip ==
    /\ entity.skip_update
    /\ entity' = AsyncUpdateSkipped(entity)
    /\ hist' = [Did("async_update_skip", NoArg, 0, << >>) EXCEPT
                    !.cmd_pending = FALSE, !.after_cmd = hist.cmd_pending,
                    !.last_tick = "skip"]
    /\ UNCHANGED <<hass, dev, jobs, applied, mirror_seq>>

\* A poll tick that finds the flag clear: the status read goes to the executor.
AsyncUpdateStart ==
    /\ ~entity.skip_update
    /\ BagCardinality(jobs) < MaxInFlight
    /\ jobs' = jobs (+) SetToBag({Queued("poll", EmptyPort)})
    /\ hist' = [Did("async_update_start", NoArg, 0, << >>) EXCEPT
                    !.cmd_pending = FALSE, !.after_cmd = hist.cmd_pending,
                    !.last_tick = "read"]
    /\ UNCHANGED <<hass, entity, dev, applied, mirror_seq>>

\* The executor runs get_thing_info: it returns the device's status, or a
\* value that is no dict, or raises.
GetThingInfo(job) ==
    /\ job.kind = "poll" /\ job.st = "queued"
    /\ \E res \in {Returned(dev), NotADict} \cup {Raised(x) : x \in CoreExceptions} :
           jobs' = Replace(job, Done(job, res, IF res.kind = "dict" THEN applied ELSE 0))
    /\ UNCHANGED <<hass, entity, dev, applied, mirror_seq, hist>>

\* async_update resumes with the result of the read.
AsyncUpdateFinish(job) ==
    /\ job.kind = "poll" /\ job.st = "done"
    /\ entity' = AsyncUpdateResume(entity, job.res)
    /\ mirror_seq' = IF job.res.kind = "dict" THEN job.tag ELSE mirror_seq
    /\ jobs' = jobs (-) SetToBag({job})
    /\ hist' = [Did(IF job.res.kind = "dict" THEN "async_update_ok"
                    ELSE "async_update_failed",
                    IF entity.available THEN "available" ELSE "unavailable",
                    AsyncUpdateWrites(job.res), << >>) EXCEPT
                    !.mirror_src = IF job.res.kind = "dict" THEN "poll"
                                   ELSE hist.mirror_src]
    /\ UNCHANGED <<hass, dev, applied>>

\* set_thing_state(data) is called: the command goes to the executor.
SetThingStateStart ==
    /\ BagCardinality(jobs) < MaxInFlight
    /\ \E data \in CorePayloads :
           /\ jobs' = jobs (+) SetToBag({Queued("cmd", data)})
           /\ hist' = Did("set_thing_state_start", NoArg, 0, <<data>>)
    /\ UNCHANGED <<hass, entity, dev, applied, mirror_seq>>

\* The executor runs send_operation_data: the device executes the command and
\* answers with its new status.
SendOperationDataOk(job) ==
    /\ job.kind = "cmd" /\ job.st = "queued"
    /\ applied < MaxApplied
    /\ \E response \in DevStatuses :
           /\ dev' = response
           /\ jobs' = Replace(job, Done(job, Returned(response), applied + 1))
    /\ applied' = applied + 1
    /\ UNCHANGED <<hass, entity, mirror_seq, hist>>

\* send_operation_data raises, or returns a value that is no dict.
SendOperationDataFails(job) ==
    /\ job.kind = "cmd" /\ job.st = "queued"
    /\ \E res \in {NotADict} \cup {Raised(x) : x \in Exceptions} :
           jobs' = Replace(job, Done(job, res, 0))
    /\ UNCHANGED <<hass, entity, dev, applied, mirror_seq, hist>>

\* set_thing_state resumes with the result of the command.
SetThingStateFinish(job) ==
    /\ job.kind = "cmd" /\ job.st = "done"
    /\ entity' = SetThingStateResume(entity, job.res)
    /\ mirror_seq' = IF job.res.kind = "dict" THEN job.tag ELSE mirror_seq
    /\ jobs' = jobs (-) SetToBag({job})
    /\ hist' = [Did(IF job.res.kind = "dict" THEN "set_thing_state_ok"
                    ELSE "set_thing_state_failed",
                    entity.preset_mode, SetThingStateWrites(job.res), << >>) EXCEPT
                    !.cmd_pending = (job.res.kind = "dict") \/ hist.cmd_pending,
                    !.mirror_src = IF job.res.kind = "dict" THEN "cmd"
                                   ELSE hist.mirror_src]
    /\ UNCHANGED <<hass, dev, applied>>

\* The device's state changes by itself (remote control, room temperature).
DeviceChange ==
    /\ \E s \in DevStatuses \ {dev} : dev' = s
    /\ UNCHANGED <<hass, entity, jobs, applied, mirror_seq, hist>>

Next ==
    \/ AsyncUpdateSkip
    \/ AsyncUpdateStart
    \/ \E job \in InFlight : GetThingInfo(job)
    \/ \E job \in InFlight : AsyncUpdateFinish(job)
    \/ SetThingStateStart
    \/ \E job \in InFlight : SendOperationDataOk(job)
    \/ \E job \in InFlight : SendOperationDataFails(job)
    \/ \E job \in InFlight : SetThingStateFinish(job)
    \/ DeviceChange

Spec == Init /\ [][Next]_vars

(***************************************************************************)
(* The synchronization model: set_thing_state's re-synchronization and     *)
(* update_entity_properties applied, one call at a time, to statuses over  *)
(* wider field values.                                                     *)
(***************************************************************************)

\* The statuses and command responses of the synchronization model.
SyncStatuses ==
    StatusSet({None, 0, 1}, {None, 2, 3, 9}, {None, 24}, {None, 23}, {None, 5},
              {None, 0, 1}, {0, 1}, {0, 1}) \cup {EmptyDict}

InitSync ==
    /\ entity = NewEntity
    /\ dev = EmptyDict
    /\ jobs = EmptyBag
    /\ applied = 0
    /\ mirror_seq = 0
    /\ hist = InitHist
    /\ hass = NewHass

\* set_thing_state(data) is called and the device answers.
ResponseArrives ==
    /\ jobs = EmptyBag
    /\ \E data \in CorePayloads, response \in SyncStatuses :
           /\ jobs' = SetToBag({Done(Queued("cmd", data), Returned(response), 0)})
           /\ hist' = Did("set_thing_state_start", NoArg, 0, <<data>>)
    /\ UNCHANGED <<hass, entity, dev, applied, mirror_seq>>

\* A status has been read that update_entity_properties is to be called with.
StatusArrives ==
    /\ jobs = EmptyBag
    /\ \E status \in SyncStatuses :
           jobs' = SetToBag({Done(Queued("status", EmptyPort), Returned(status), 0)})
    /\ UNCHANGED <<hass, entity, dev, applied, mirror_seq, hist>>

\* update_entity_properties(status) is called, as the platform's
\* async_setup_entry calls it.
UpdateEntityProperties(job) ==
    /\ job.kind = "status" /\ job.st = "done"
    /\ entity' = update_entity_properties(entity, job.res.status)
    /\ jobs' = jobs (-) SetToBag({job})
    /\ hist' = [Did("update_entity_properties", NoArg, 1, << >>) EXCEPT
                    !.mirror_src = "poll"]
    /\ UNCHANGED <<hass, dev, applied, mirror_seq>>

NextSync ==
    \/ ResponseArrives
    \/ StatusArrives
    \/ \E job \in InFlight : UpdateEntityProperties(job)
    \/ \E job \in InFlight : SetThingStateFinish(job)

SpecSync == InitSync /\ [][NextSync]_vars


(***************************************************************************)
(* The request handlers.  Each gives the entity it leaves, the number of   *)
(* async_write_ha_state calls it makes itself, and the payload it hands to *)
(* set_thing_state (<< >> when it sends none).                             *)
(***************************************************************************)

\* The range of target temperatures the entity advertises.
min_temp == 10
max_temp == 32

Rejected(e, w) == [ent |-> e, writes |-> w, sent |-> << >>]
Sends(e, data) == [ent |-> e, writes |-> 0, sent |-> <<data>>]

hvac_mode_mapping(hvac_mode) ==
    CASE hvac_mode = HVAC_OFF -> 0
      [] hvac_mode = HVAC_FAN_ONLY -> 6
      [] hvac_mode = HVAC_COOL -> 3
      [] hvac_mode = HVAC_DRY -> 2
      [] hvac_mode = HVAC_HEAT -> 4
      [] hvac_mode = HVAC_AUTO -> 1
      [] OTHER -> None

\* A handler that sends the mode with the power off too.
async_set_hvac_mode_SendsModeOff(e, hvac_mode) ==
    LET mode_value == hvac_mode_mapping(hvac_mode) IN
    IF mode_value = None THEN Rejected(e, 0)
    ELSE Sends(e, [EmptyPort EXCEPT !.mode = mode_value,
                                    !.power = IF mode_value = 0 THEN 0 ELSE 1])

async_set_hvac_mode(e, hvac_mode) ==
    LET mode_value == hvac_mode_mapping(hvac_mode) IN
    IF mode_value = None THEN Rejected(e, 0)
    ELSE IF mode_value = 0 THEN Sends(e, [EmptyPort EXCEPT !.power = 0])
    ELSE Sends(e, [EmptyPort EXCEPT !.mode = mode_value, !.power = 1])

fan_mode_mapping(fan_mode) ==
    CASE fan_mode = "auto" -> 17
      [] fan_mode = "high" -> 7
      [] fan_mode = "medium_high" -> 6
      [] fan_mode = "medium" -> 5
      [] fan_mode = "low_medium" -> 4
      [] fan_mode = "low" -> 3
      [] fan_mode = "quiet" -> 18
      [] OTHER -> None

\* A handler that changes the fan speed in dry mode too.
async_set_fan_mode_AllowsDry(e, fan_mode) ==
    LET fan_mode_value == fan_mode_mapping(fan_mode) IN
    IF fan_mode_value = None THEN Rejected(e, 0)
    ELSE Sends(e, [EmptyPort EXCEPT !.fan = fan_mode_value])

async_set_fan_mode(e, fan_mode) ==
    LET fan_mode_value == fan_mode_mapping(fan_mode) IN
    IF e.hvac_mode = HVAC_DRY THEN Rejected(e, 1)
    ELSE IF fan_mode_value = None THEN Rejected(e, 0)
    ELSE Sends(e, [EmptyPort EXCEPT !.fan = fan_mode_value])

\* A handler that accepts any temperature in COOL mode.
async_set_temperature_NoRange(e, temperature) ==
    IF temperature = None THEN Rejected(e, 0)
    ELSE IF e.hvac_mode \in {HVAC_FAN_ONLY, HVAC_DRY}
    THEN Rejected([e EXCEPT !.target_temperature = temperature], 1)
    ELSE Sends(e, [EmptyPort EXCEPT !.temperature = temperature])

\* A handler that leaves the temperature dial alone when it rejects.
async_set_temperature_KeepsDial(e, temperature) ==
    IF temperature = None THEN Rejected(e, 0)
    ELSE IF e.hvac_mode = HVAC_COOL /\ (temperature < 16 \/ temperature > 32)
    THEN Rejected(e, 1)
    ELSE IF e.hvac_mode \in {HVAC_FAN_ONLY, HVAC_DRY}
    THEN Rejected(e, 1)
    ELSE Sends(e, [EmptyPort EXCEPT !.temperature = temperature])

async_set_temperature(e, temperature) ==
    IF temperature = None THEN Rejected(e, 0)
    ELSE IF e.hvac_mode = HVAC_COOL /\ (temperature < 16 \/ temperature > 32)
    THEN Rejected([e EXCEPT !.target_temperature = temperature], 1)
    ELSE IF e.hvac_mode \in {HVAC_FAN_ONLY, HVAC_DRY}
    THEN Rejected([e EXCEPT !.target_temperature = temperature], 1)
    ELSE Sends(e, [EmptyPort EXCEPT !.temperature = temperature])

\* A handler that changes the preset whatever the power state is.
async_set_preset_mode_IgnoresPower(e, preset_mode) ==
    CASE preset_mode = PRESET_ECO ->
            Sends([e EXCEPT !.preset_mode = PRESET_ECO],
                  [EmptyPort EXCEPT !.powerchill = 0, !.econo = 1])
      [] preset_mode = PRESET_BOOST ->
            Sends([e EXCEPT !.preset_mode = PRESET_BOOST],
                  [EmptyPort EXCEPT !.powerchill = 1, !.econo = 0])
      [] preset_mode = PRESET_NONE ->
            Sends([e EXCEPT !.preset_mode = PRESET_NONE],
                  [EmptyPort EXCEPT !.powerchill = 0, !.econo = 0])
      [] OTHER -> Rejected(e, 0)

\* A handler that leaves the mirrored preset to the command's response.
async_set_preset_mode_NotOptimistic(e, preset_mode) ==
    IF e.power_state = 1
    THEN CASE preset_mode = PRESET_ECO ->
                Sends(e, [EmptyPort EXCEPT !.powerchill = 0, !.econo = 1])
           [] preset_mode = PRESET_BOOST ->
                Sends(e, [EmptyPort EXCEPT !.powerchill = 1, !.econo = 0])
           [] preset_mode = PRESET_NONE ->
                Sends(e, [EmptyPort EXCEPT !.powerchill = 0, !.econo = 0])
           [] OTHER -> Rejected(e, 0)
    ELSE Rejected(e, 1)

\* The preset is changed before the command is sent; its
\* schedule_update_ha_state is no async_write_ha_state call.
async_set_preset_mode(e, preset_mode) ==
    IF e.power_state = 1
    THEN CASE preset_mode = PRESET_ECO ->
                Sends([e EXCEPT !.preset_mode = PRESET_ECO],
                      [EmptyPort EXCEPT !.powerchill = 0, !.econo = 1])
           [] preset_mode = PRESET_BOOST ->
                Sends([e EXCEPT !.preset_mode = PRESET_BOOST],
                      [EmptyPort EXCEPT !.powerchill = 1, !.econo = 0])
           [] preset_mode = PRESET_NONE ->
                Sends([e EXCEPT !.preset_mode = PRESET_NONE],
                      [EmptyPort EXCEPT !.powerchill = 0, !.econo = 0])
           [] OTHER -> Rejected(e, 0)
    ELSE Rejected(e, 1)

\* A handler that does not test the swing mode against the supported list.
async_set_swing_mode_NoCheck(e, swing_mode) ==
    Sends(e, [EmptyPort EXCEPT
                 !.v_swing = IF swing_mode = SWING_VERTICAL THEN 1 ELSE 0])

async_set_swing_mode(e, swing_mode) ==
    IF swing_mode \notin {SWING_OFF, SWING_VERTICAL} THEN Rejected(e, 0)
    ELSE Sends(e, [EmptyPort EXCEPT
                      !.v_swing = IF swing_mode = SWING_VERTICAL THEN 1 ELSE 0])

(***************************************************************************)
(* The command model: the request handlers, one request at a time, each    *)
(* followed by the device's answer when it sends a command.                *)
(***************************************************************************)

\* The requests made.
HvacRequests ==
    {HVAC_OFF, HVAC_FAN_ONLY, HVAC_COOL, HVAC_DRY, HVAC_HEAT, HVAC_AUTO,
     "INVALID_MODE"}
FanRequests ==
    {"auto", "high", "medium_high", "medium", "low_medium", "low", "quiet",
     "INVALID_FAN"}
TemperatureRequests == {None, 9, 15, 16, 24, 32, 33}
PresetRequests == {PRESET_NONE, PRESET_ECO, PRESET_BOOST, "INVALID_PRESET"}
SwingRequests == {SWING_OFF, SWING_VERTICAL, "horizontal"}

\* The responses of the device in the command model.
CmdStatuses ==
    StatusSet({0, 1}, {1, 2, 3, 4, 6}, {24}, {23}, {5}, {0, 1}, {0, 1}, {0})
        \cup {EmptyDict}

\* A request handler runs up to its return or to the await in set_thing_state.
Request(op, arg, r) ==
    /\ jobs = EmptyBag
    /\ entity' = r.ent
    /\ jobs' = IF r.sent = << >> THEN jobs
               ELSE SetToBag({Queued("cmd", r.sent[1])})
    /\ hist' = Did(op, arg, r.writes, r.sent)
    /\ UNCHANGED <<hass, dev, applied, mirror_seq>>

SetHvacMode(hvac_mode) ==
    Request("async_set_hvac_mode", hvac_mode, async_set_hvac_mode(entity, hvac_mode))

SetFanMode(fan_mode) ==
    Request("async_set_fan_mode", fan_mode, async_set_fan_mode(entity, fan_mode))

SetTemperature(temperature) ==
    Request("async_set_temperature", temperature,
            async_set_temperature(entity, temperature))

SetPresetMode(preset_mode) ==
    Request("async_set_preset_mode", preset_mode,
            async_set_preset_mode(entity, preset_mode))

SetSwingMode(swing_mode) ==
    Request("async_set_swing_mode", swing_mode,
            async_set_swing_mode(entity, swing_mode))

\* The executor runs send_operation_data: the device answers with its new
\* status, or the call raises or returns a value that is no dict.
SendOperationData(job) ==
    /\ job.kind = "cmd" /\ job.st = "queued"
    /\ \E res \in {Returned(r) : r \in CmdStatuses} \cup {NotADict}
                      \cup {Raised(x) : x \in Exceptions} :
           /\ jobs' = Replace(job, Done(job, res, 0))
           /\ dev' = IF res.kind = "dict" THEN res.status ELSE dev
    /\ UNCHANGED <<hass, entity, applied, mirror_seq, hist>>

NextCmd ==
    \/ \E hvac_mode \in HvacRequests : SetHvacMode(hvac_mode)
    \/ \E fan_mode \in FanRequests : SetFanMode(fan_mode)
    \/ \E temperature \in TemperatureRequests : SetTemperature(temperature)
    \/ \E preset_mode \in PresetRequests : SetPresetMode(preset_mode)
    \/ \E swing_mode \in SwingRequests : SetSwingMode(swing_mode)
    \/ \E job \in InFlight : SendOperationData(job)
    \/ \E job \in InFlight : SetThingStateFinish(job)

SpecCmd == InitSync /\ [][NextCmd]_vars

(***************************************************************************)
(* The entity model: the request handlers and the polls together.  A       *)
(* request is made when no coroutine is suspended; a poll tick may come     *)
(* while a command waits in the executor.                                   *)
(***************************************************************************)

\* The requests made in the entity model: for each handler one it accepts
\* in some state and one it rejects in every state.
EntityHvacRequests == {HVAC_OFF, HVAC_COOL, HVAC_DRY, "INVALID_MODE"}
EntityFanRequests == {"quiet", "INVALID_FAN"}
EntityTemperatureRequests == {None, 15, 24}
EntityPresetRequests == {PRESET_ECO, "INVALID_PRESET"}
EntitySwingRequests == {SWING_VERTICAL, "horizontal"}

\* The statuses of the device in the entity model.
EntityStatuses ==
    StatusSet({0, 1}, {2, 3}, {24}, {23}, {5}, {0}, {0, 1}, {0}) \cup {EmptyDict}

\* The executor runs send_operation_data: the device answers with its new
\* status, or the call raises or returns a value that is no dict.
DeviceAnswers(job) ==
    /\ job.kind = "cmd" /\ job.st = "queued"
    /\ \E res \in {Returned(r) : r \in EntityStatuses} \cup {NotADict}
                      \cup {Raised(x) : x \in CoreExceptions} :
           /\ jobs' = Replace(job, Done(job, res, 0))
           /\ dev' = IF res.kind = "dict" THEN res.status ELSE dev
    /\ UNCHANGED <<hass, entity, applied, mirror_seq, hist>>

NextEntity ==
    \/ \E hvac_mode \in EntityHvacRequests : SetHvacMode(hvac_mode)
    \/ \E fan_mode \in EntityFanRequests : SetFanMode(fan_mode)
    \/ \E temperature \in EntityTemperatureRequests : SetTemperature(temperature)
    \/ \E preset_mode \in EntityPresetRequests : SetPresetMode(preset_mode)
    \/ \E swing_mode \in EntitySwingRequests : SetSwingMode(swing_mode)
    \/ \E job \in InFlight : DeviceAnswers(job)
    \/ \E job \in InFlight : SetThingStateFinish(job)
    \/ AsyncUpdateSkip
    \/ AsyncUpdateStart
    \/ \E job \in InFlight : GetThingInfo(job)
    \/ \E job \in InFlight : AsyncUpdateFinish(job)

SpecEntity == InitSync /\ [][NextEntity]_vars

(***************************************************************************)
(* The recovery model: polls and commands as in the interleaving model (a  *)
(* command is issued when no coroutine is suspended, a poll tick may come  *)
(* while it waits), until the device settles; from then on its state does  *)
(* not change, every status read returns its status and no command is      *)
(* issued.  The poll                                                       *)
(* ticks come for ever (async_track_time_interval), every executor job is  *)
(* run and every coroutine whose job is done is resumed.                   *)
(***************************************************************************)

\* The device settles; no command is waiting to be executed.
Settle ==
    /\ ~hass.settled
    /\ \A job \in InFlight : ~(job.kind = "cmd" /\ job.st = "queued")
    /\ hass' = [hass EXCEPT !.settled = TRUE]
    /\ UNCHANGED <<entity, dev, jobs, applied, mirror_seq, hist>>

\* get_thing_info in the executor; it returns the status once the device
\* has settled.
GetThingInfoSettling(job) ==
    /\ GetThingInfo(job)
    /\ hass.settled => jobs' = Replace(job, Done(job, Returned(dev), applied))

NextRecovery ==
    \/ Settle
    \/ ~hass.settled /\ DeviceChange
    \/ ~hass.settled /\ jobs = EmptyBag /\ SetThingStateStart
    \/ \E job \in InFlight : SendOperationDataOk(job)
    \/ \E job \in InFlight : SendOperationDataFails(job)
    \/ \E job \in InFlight : SetThingStateFinish(job)
    \/ AsyncUpdateSkip
    \/ AsyncUpdateStart
    \/ \E job \in InFlight : GetThingInfoSettling(job)
    \/ \E job \in InFlight : AsyncUpdateFinish(job)

SpecRecovery ==
    /\ Init
    /\ [][NextRecovery]_vars
    /\ WF_vars(AsyncUpdateSkip \/ AsyncUpdateStart)
    /\ WF_vars(\E job \in InFlight : GetThingInfoSettling(job))
    /\ WF_vars(\E job \in InFlight : AsyncUpdateFinish(job))
    /\ WF_vars(\E job \in InFlight : SetThingStateFinish(job))

(***************************************************************************)
(* The mapper model: the device reports a status whose mode and fan codes  *)
(* range over the device codes, the power being on, and the entity is      *)
(* updated from it.                                                        *)
(***************************************************************************)

\* The greatest device code reported.
MaxCode == 19

\* The codes a status carries for mode and fan; None when the key is absent.
DeviceCodes == (0..MaxCode) \cup {None}

\* The HVAC modes and the fan modes the entity supports.
hvac_modes == {HVAC_OFF, HVAC_FAN_ONLY, HVAC_COOL, HVAC_DRY, HVAC_HEAT, HVAC_AUTO}
fan_modes == {"auto", "high", "medium_high", "medium", "low_medium", "low", "quiet"}

MapStatuses == StatusSet({1}, DeviceCodes, {24}, {23}, DeviceCodes, {0}, {0}, {0})

\* The device takes a state and its status is read.
StatusReported ==
    /\ jobs = EmptyBag
    /\ \E status \in MapStatuses :
           /\ dev' = status
           /\ jobs' = SetToBag({Done(Queued("status", EmptyPort), Returned(status), 0)})
    /\ UNCHANGED <<hass, entity, applied, mirror_seq, hist>>

NextMap ==
    \/ StatusReported
    \/ \E job \in InFlight : UpdateEntityProperties(job)

SpecMap == InitSync /\ [][NextMap]_vars

(***************************************************************************)
(* The platform setup model: the climate platform's async_setup_entry is   *)
(* called once, with a config entry that has a device key or has none.     *)
(***************************************************************************)

\* The exceptions async_setup_entry tells apart, and any other.
SetupExceptions == {"ValueError", "KeyError", "TimeoutError", "OSError", "Exception"}

\* The statuses the device reports at setup; {"port1": {}} is one of them.
SetupStatuses == SyncStatuses \cup {[has_port1 |-> TRUE, port1 |-> EmptyPort]}

\* A test of the device key that never fails.
DeviceKeyMissing_Never(has_key) == FALSE

\* not device_key
DeviceKeyMissing(has_key) == ~has_key

\* The truth of port_status after the try block: the read returned a dict
\* whose port1 section is not empty.  A raised exception, the AttributeError
\* of status.get on a value that is no dict and the ValueError raised for an
\* empty port1 are all caught, and port_status is then None or {}.
PortStatusRead(res) ==
    res.kind = "dict" /\ Port1(res.status) # EmptyPort

\* A setup that gives up, adding no entity, when the status read fails.
ClimateSetupResume_GivesUp(res) ==
    IF PortStatusRead(res)
    THEN [ent |-> update_entity_properties(NewEntity, res.status),
          added |-> 1, updates |-> <<res.status>>]
    ELSE [ent |-> NewEntity, added |-> 0, updates |-> << >>]

\* async_setup_entry resumed with the status read's result: the entity it
\* creates, the number of entities it adds, and the statuses it calls
\* update_entity_properties with.
ClimateSetupResume(res) ==
    IF PortStatusRead(res)
    THEN [ent |-> update_entity_properties(NewEntity, res.status),
          added |-> 1, updates |-> <<res.status>>]
    ELSE [ent |-> [NewEntity EXCEPT !.available = FALSE],
          added |-> 1, updates |-> << >>]

InitSetup ==
    /\ entity = NewEntity
    /\ dev \in SetupStatuses
    /\ jobs = EmptyBag
    /\ applied = 0
    /\ mirror_seq = 0
    /\ hist = InitHist
    /\ \E has_key \in BOOLEAN : hass = [NewHass EXCEPT !.has_key = has_key]

\* async_setup_entry is called with an entry that has no device key.
ClimateSetupNoKey ==
    /\ hist.op = "init"
    /\ DeviceKeyMissing(hass.has_key)
    /\ hist' = Did("async_setup_entry_no_key", NoArg, 0, << >>)
    /\ UNCHANGED <<hass, entity, dev, jobs, applied, mirror_seq>>

\* async_setup_entry is called with an entry that has a device key: the
\* status read goes to the executor.
ClimateSetupStart ==
    /\ hist.op = "init"
    /\ ~DeviceKeyMissing(hass.has_key)
    /\ jobs' = jobs (+) SetToBag({Queued("setup", EmptyPort)})
    /\ hass' = [hass EXCEPT !.reads = @ + 1]
    /\ hist' = Did("async_setup_entry_start", NoArg, 0, << >>)
    /\ UNCHANGED <<entity, dev, applied, mirror_seq>>

\* The executor runs get_thing_info for the setup.
GetThingInfoSetup(job) ==
    /\ job.kind = "setup" /\ job.st = "queued"
    /\ \E res \in {Returned(dev), NotADict} \cup {Raised(x) : x \in SetupExceptions} :
           jobs' = Replace(job, Done(job, res, 0))
    /\ UNCHANGED <<hass, entity, dev, applied, mirror_seq, hist>>

\* async_setup_entry resumes with the result of the read and returns.
ClimateSetupFinish(job) ==
    /\ job.kind = "setup" /\ job.st = "done"
    /\ LET r == ClimateSetupResume(job.res) IN
           /\ entity' = r.ent
           /\ hass' = [hass EXCEPT !.added = @ + r.added,
                                    !.updates = @ \o r.updates]
           /\ hist' = [Did("async_setup_entry_done", job.res.kind,
                           Len(r.updates), << >>) EXCEPT
                           !.mirror_src = IF r.updates = << >> THEN hist.mirror_src
                                          ELSE "poll"]
    /\ jobs' = jobs (-) SetToBag({job})
    /\ UNCHANGED <<dev, applied, mirror_seq>>

NextSetup ==
    \/ ClimateSetupNoKey
    \/ ClimateSetupStart
    \/ \E job \in InFlight : GetThingInfoSetup(job)
    \/ \E job \in InFlight : ClimateSetupFinish(job)

SpecSetup == InitSetup /\ [][NextSetup]_vars

(***************************************************************************)
(* The coordinator model: DaikinDataUpdateCoordinator._async_update_data   *)
(* awaits the update method and returns its data or raises.                *)
(***************************************************************************)

\* What the update method returns when it returns a dict.
CoordinatorStatuses == CmdStatuses

\* A coordinator that returns {} for every dict.
async_update_data_DropsData(res) ==
    IF res.kind = "dict" THEN Returned(EmptyDict) ELSE Raised("UpdateFailed")

\* _async_update_data resumed with the update method's outcome: a dict is
\* returned as it is; for a value that is no dict a TypeError is raised, and
\* that and every exception of the update method is re-raised as
\* UpdateFailed.
async_update_data(res) ==
    IF res.kind = "dict" THEN Returned(res.status) ELSE Raised("UpdateFailed")

\* _async_update_data is called and awaits the update method.
CoordinatorRefreshStart ==
    /\ jobs = EmptyBag
    /\ jobs' = SetToBag({Queued("refresh", EmptyPort)})
    /\ hist' = Did("_async_update_data_start", NoArg, 0, << >>)
    /\ UNCHANGED <<hass, entity, dev, applied, mirror_seq>>

\* The update method returns a dict or another value, or raises.
UpdateMethod(job) ==
    /\ job.kind = "refresh" /\ job.st = "queued"
    /\ \E res \in {Returned(status) : status \in CoordinatorStatuses}
                      \cup {NotADict} \cup {Raised(x) : x \in Exceptions} :
           jobs' = Replace(job, Done(job, res, 0))
    /\ UNCHANGED <<hass, entity, dev, applied, mirror_seq, hist>>

\* _async_update_data resumes and returns or raises.
CoordinatorRefreshFinish(job) ==
    /\ job.kind = "refresh" /\ job.st = "done"
    /\ hass' = [hass EXCEPT !.refresh = async_update_data(job.res)]
    /\ jobs' = jobs (-) SetToBag({job})
    /\ hist' = Did("_async_update_data", job.res.kind, 0, << >>)
    /\ UNCHANGED <<entity, dev, applied, mirror_seq>>

NextCoordinator ==
    \/ CoordinatorRefreshStart
    \/ \E job \in InFlight : UpdateMethod(job)
    \/ \E job \in InFlight : CoordinatorRefreshFinish(job)

SpecCoordinator == InitSync /\ [][NextCoordinator]_vars

(***************************************************************************)
(* The integration model: async_setup_entry and async_unload_entry of the  *)
(* integration, called by the host for config entries; the host sets up an *)
(* entry that is not loaded and unloads an entry that is.                  *)
(***************************************************************************)

\* The number of config entries.
MaxEntries == 3

EntryIds == 1..MaxEntries

\* The data of a config entry: with a device key or without.
EntryData == [has_key : BOOLEAN]

\* d[k] = v for a dict d
DictSet(d, k, v) == [x \in DOMAIN d \cup {k} |-> IF x = k THEN v ELSE d[x]]

\* A pop that leaves the dict as it is.
DictPop_Keeps(d, k) == d

\* d.pop(k) for a dict d that has the key k
DictPop(d, k) == [x \in DOMAIN d \ {k} |-> d[x]]

\* async_setup_entry(hass, entry): the entry's data is stored, the entry is
\* forwarded to the climate platform, and True is returned.
AsyncSetupEntry(entry_id, data) ==
    /\ entry_id \notin {l.entry_id : l \in hass.loaded}
    /\ hass' = [hass EXCEPT !.data = DictSet(@, entry_id, data),
                             !.has_domain = TRUE,
                             !.loaded = @ \cup {[entry_id |-> entry_id, data |-> data]},
                             !.result = "True"]
    /\ hist' = Did("async_setup_entry", entry_id, 0, << >>)
    /\ UNCHANGED <<entity, dev, jobs, applied, mirror_seq>>

\* async_unload_entry(hass, entry): the entry's key is popped and the
\* result of unloading the platforms is returned.
AsyncUnloadEntry(entry_id) ==
    /\ entry_id \in {l.entry_id : l \in hass.loaded}
    /\ \E unload_ok \in {"True", "False"} :
           hass' = [hass EXCEPT !.data = DictPop(@, entry_id),
                                !.loaded = {l \in @ : l.entry_id # entry_id},
                                !.result = unload_ok]
    /\ hist' = Did("async_unload_entry", entry_id, 0, << >>)
    /\ UNCHANGED <<entity, dev, jobs, applied, mirror_seq>>

NextIntegration ==
    \/ \E entry_id \in EntryIds, data \in EntryData : AsyncSetupEntry(entry_id, data)
    \/ \E entry_id \in EntryIds : AsyncUnloadEntry(entry_id)

SpecIntegration == InitSync /\ [][NextIntegration]_vars

(***************************************************************************)
(* Claims about polls and commands                                         *)
(***************************************************************************)

\* A poll tick: async_update is called.
PollTick == AsyncUpdateSkip \/ AsyncUpdateStart

\* C1: after set_thing_state has completed successfully, the very next poll
\* tick reads no device status, leaves the mirrored fields and the
\* availability flag as they were, and clears the skip flag.
C1_TickAfterCommandIsSkipped ==
    [][(hist.cmd_pending /\ PollTick) =>
          /\ jobs' = jobs
          /\ Mirror(entity') = Mirror(entity)
          /\ entity'.available = entity.available
          /\ ~entity'.skip_update]_vars

\* A poll tick came first after a successful command and was skipped.
C1_Witness == hist.op = "async_update_skip" /\ hist.after_cmd

\* C2: a status read taken before a command was executed never replaces the
\* mirrored state derived from that command's response (stated for a mirror
\* that shows the device switched on by the command).
C2_NoStaleOverwrite ==
    [][\A job \in InFlight :
          (/\ AsyncUpdateFinish(job)
           /\ job.res.kind = "dict" /\ job.res.status.has_port1
           /\ hist.mirror_src = "cmd" /\ entity.power_state = 1
           /\ job.tag < mirror_seq)
          => Mirror(entity') = Mirror(entity)]_vars

C6_FailedCommandKeepsMirror ==
    [][\A job \in InFlight :
          (SetThingStateFinish(job) /\ job.res.kind \in Exceptions) =>
              /\ Mirror(entity') = Mirror(entity)
              /\ hist'.op = "set_thing_state_failed"]_vars

\* A command has failed after the mirror had been set from the device.
C6_Witness == hist.op = "set_thing_state_failed" /\ hist.mirror_src # "init"

\* C7: a periodic update whose status has no port1 section leaves the entity
\* unavailable.
C7_MissingPort1Unavailable ==
    [][\A job \in InFlight :
          (AsyncUpdateFinish(job) /\ job.res = Returned(EmptyDict))
          => ~entity'.available]_vars

(***************************************************************************)
(* Claims about the synchronization                                       *)
(***************************************************************************)

\* C3: when set_thing_state receives a response, the mirror is set from the
\* response's port1 section: power = power; HVAC mode = map_hvac_mode(mode)
\* if the power is on, else off; target temperature = temperature; current
\* temperature = sensors.room_temp; fan = map_fan_speed(fan); swing is
\* vertical iff v_swing is 1; preset is eco for econo 1 and powerchill 0,
\* boost for powerchill 1 and econo 0, none when both are 0; and the state
\* is written to the host exactly once.
C3_ResponseSync ==
    [][\A job \in InFlight :
          (SetThingStateFinish(job) /\ job.res.kind = "dict") =>
              LET port1 == Port1(job.res.status) IN
              /\ entity'.power_state = port1.power
              /\ entity'.hvac_mode = IF port1.power = 1
                                     THEN map_hvac_mode(port1.mode) ELSE HVAC_OFF
              /\ entity'.target_temperature = port1.temperature
              /\ entity'.current_temperature = port1.room_temp
              /\ entity'.fan_mode = map_fan_speed(port1.fan)
              /\ (entity'.swing_mode = SWING_VERTICAL) = (port1.v_swing = 1)
              /\ entity'.swing_mode \in {SWING_VERTICAL, SWING_OFF}
              /\ (port1.econo = 1 /\ port1.powerchill = 0
                    => entity'.preset_mode = PRESET_ECO)
              /\ (port1.powerchill = 1 /\ port1.econo = 0
                    => entity'.preset_mode = PRESET_BOOST)
              /\ (port1.econo = 0 /\ port1.powerchill = 0
                    => entity'.preset_mode = PRESET_NONE)
              /\ hist'.writes = 1]_vars

\* A response with both flags 0 has reset the preset boost to none, and the
\* rest of the mirror shows the response's values.
C3_Witness ==
    /\ hist.op = "set_thing_state_ok"
    /\ hist.arg = PRESET_BOOST
    /\ entity.hvac_mode = HVAC_COOL
    /\ entity.swing_mode = SWING_VERTICAL
    /\ entity.preset_mode = PRESET_NONE
    /\ entity.fan_mode = "medium"

\* C4: update_entity_properties(status) sets the mirror from status.port1:
\* current temperature = sensors.room_temp, target temperature =
\* temperature, power = power (0 when absent); the HVAC mode is off when the
\* power is 0 whatever the mode says, otherwise map_hvac_mode(mode); fan =
\* map_fan_speed(fan); swing is vertical iff v_swing is 1; preset is eco if
\* econo is 1, else boost if powerchill is 1, else none; it writes the host
\* state exactly once and leaves the skip flag set.
C4_StatusSync ==
    [][\A job \in InFlight :
          UpdateEntityProperties(job) =>
              LET port1 == Port1(job.res.status)
                  power == IF port1.power = None THEN 0 ELSE port1.power
              IN
              /\ entity'.current_temperature = port1.room_temp
              /\ entity'.target_temperature = port1.temperature
              /\ entity'.power_state = power
              /\ (power = 0 => entity'.hvac_mode = HVAC_OFF)
              /\ (power # 0 => entity'.hvac_mode =
                                   map_hvac_mode(GetOr(port1.mode, 0)))
              /\ entity'.fan_mode = map_fan_speed(port1.fan)
              /\ (entity'.swing_mode = SWING_VERTICAL) = (port1.v_swing = 1)
              /\ entity'.swing_mode \in {SWING_VERTICAL, SWING_OFF}
              /\ entity'.preset_mode =
                     (IF port1.econo = 1 THEN PRESET_ECO
                      ELSE IF port1.powerchill = 1 THEN PRESET_BOOST
                      ELSE PRESET_NONE)
              /\ hist'.writes = 1
              /\ entity'.skip_update]_vars

\* update_entity_properties has run on a status that reports the power off
\* and has left the HVAC mode off and the skip flag set.
C4_Witness ==
    /\ hist.op = "update_entity_properties"
    /\ entity.power_state = 0
    /\ entity.hvac_mode = HVAC_OFF
    /\ entity.target_temperature = 24
    /\ entity.preset_mode = PRESET_BOOST
    /\ entity.skip_update

(***************************************************************************)
(* Claims about the request handlers                                       *)
(***************************************************************************)

\* The command sent for a payload: set_thing_state waits in the executor.
Command(data) == SetToBag({Queued("cmd", data)})

\* C8: async_set_hvac_mode sends exactly one command per supported mode: off
\* sends {port1: {power: 0}} with no mode field; fan_only, cool, dry, heat
\* and auto send {port1: {mode: m, power: 1}} with m = 6, 3, 2, 4, 1; for any
\* other mode no command is sent and the mirrored state is unchanged.
C8_HvacModeCommands ==
    [][\A hvac_mode \in HvacRequests :
          SetHvacMode(hvac_mode) =>
              LET on(m) == [EmptyPort EXCEPT !.mode = m, !.power = 1]
                  expected ==
                      CASE hvac_mode = "off" -> <<[EmptyPort EXCEPT !.power = 0]>>
                        [] hvac_mode = "fan_only" -> <<on(6)>>
                        [] hvac_mode = "cool" -> <<on(3)>>
                        [] hvac_mode = "dry" -> <<on(2)>>
                        [] hvac_mode = "heat" -> <<on(4)>>
                        [] hvac_mode = "auto" -> <<on(1)>>
                        [] OTHER -> << >>
              IN  /\ hist'.sent = expected
                  /\ jobs' = IF expected = << >> THEN jobs ELSE Command(expected[1])
                  /\ (expected = << >> => Mirror(entity') = Mirror(entity))]_vars

\* The request for the mode off has sent the power alone.
C8_Witness ==
    /\ hist.op = "async_set_hvac_mode"
    /\ hist.arg = HVAC_OFF
    /\ jobs = Command([EmptyPort EXCEPT !.power = 0])

\* C9: async_set_temperature sends no command when the temperature is
\* missing, when the mirrored HVAC mode is cool and the temperature is below
\* 16 or above 32, or when the mirrored HVAC mode is fan_only or dry; in cool
\* mode with 16 <= temperature <= 32 it sends exactly
\* {port1: {temperature: t}}.
C9_TemperatureCommands ==
    hist.op = "async_set_temperature" =>
        LET t == hist.arg IN
        /\ (\/ t = None
            \/ entity.hvac_mode = HVAC_COOL /\ (t < 16 \/ t > 32)
            \/ entity.hvac_mode \in {HVAC_FAN_ONLY, HVAC_DRY})
           => hist.sent = << >> /\ jobs = EmptyBag
        /\ (t # None /\ entity.hvac_mode = HVAC_COOL /\ 16 <= t /\ t <= 32)
           => hist.sent = <<[EmptyPort EXCEPT !.temperature = t]>>

\* A temperature above the range has been refused in cool mode.
C9_Witness ==
    /\ hist.op = "async_set_temperature"
    /\ hist.arg = 33
    /\ entity.hvac_mode = HVAC_COOL
    /\ jobs = EmptyBag

C11_FanModeCommands ==
    [][\A fan_mode \in FanRequests :
          SetFanMode(fan_mode) =>
              LET fan(c) == <<[EmptyPort EXCEPT !.fan = c]>>
                  expected ==
                      IF entity.hvac_mode = "dry" THEN << >>
                      ELSE CASE fan_mode = "auto" -> fan(17)
                             [] fan_mode = "high" -> fan(7)
                             [] fan_mode = "medium_high" -> fan(6)
                             [] fan_mode = "medium" -> fan(5)
                             [] fan_mode = "low_medium" -> fan(4)
                             [] fan_mode = "low" -> fan(3)
                             [] fan_mode = "quiet" -> fan(18)
                             [] OTHER -> << >>
              IN  /\ hist'.sent = expected
                  /\ jobs' = IF expected = << >> THEN jobs ELSE Command(expected[1])
                  /\ (expected = << >> => entity'.fan_mode = entity.fan_mode)]_vars

\* A supported fan mode has been refused in dry mode and the mirrored fan
\* mode is still the device's.
C11_Witness ==
    /\ hist.op = "async_set_fan_mode"
    /\ hist.arg = "quiet"
    /\ entity.hvac_mode = HVAC_DRY
    /\ entity.fan_mode = "medium"
    /\ jobs = EmptyBag

\* C12: async_set_preset_mode acts only when the mirrored power state is 1:
\* for eco, boost and none it sets the mirrored preset to the requested value
\* and sends {powerchill: 0, econo: 1}, {powerchill: 1, econo: 0} and
\* {powerchill: 0, econo: 0}, so no payload has econo and powerchill both 1;
\* when the power state is not 1, or the preset is not one of the three, no
\* command is sent and the mirrored preset is unchanged.
C12_PresetCommands ==
    [][\A preset_mode \in PresetRequests :
          SetPresetMode(preset_mode) =>
              LET flags(pc, ec) ==
                      <<[EmptyPort EXCEPT !.powerchill = pc, !.econo = ec]>>
                  expected ==
                      IF entity.power_state # 1 THEN << >>
                      ELSE CASE preset_mode = "eco" -> flags(0, 1)
                             [] preset_mode = "boost" -> flags(1, 0)
                             [] preset_mode = "none" -> flags(0, 0)
                             [] OTHER -> << >>
              IN  /\ hist'.sent = expected
                  /\ jobs' = IF expected = << >> THEN jobs ELSE Command(expected[1])
                  /\ entity'.preset_mode =
                         (IF expected = << >> THEN entity.preset_mode ELSE preset_mode)
                  /\ \A i \in DOMAIN hist'.sent :
                         ~(hist'.sent[i].econo = 1 /\ hist'.sent[i].powerchill = 1)]_vars

\* The preset boost has been refused while the device is off, and the
\* mirrored preset is still eco.
C12_Witness ==
    /\ hist.op = "async_set_preset_mode"
    /\ hist.arg = PRESET_BOOST
    /\ entity.power_state = 0
    /\ entity.preset_mode = PRESET_ECO
    /\ jobs = EmptyBag

\* C13: async_set_swing_mode sends {port1: {v_swing: 1}} for the vertical
\* swing mode and {port1: {v_swing: 0}} for swing off; for a swing mode that
\* is not in the supported list it sends no command and leaves the mirrored
\* swing mode unchanged.
C13_SwingCommands ==
    [][\A swing_mode \in SwingRequests :
          SetSwingMode(swing_mode) =>
              LET expected ==
                      CASE swing_mode = "vertical" -> <<[EmptyPort EXCEPT !.v_swing = 1]>>
                        [] swing_mode = "off" -> <<[EmptyPort EXCEPT !.v_swing = 0]>>
                        [] OTHER -> << >>
              IN  /\ hist'.sent = expected
                  /\ jobs' = IF expected = << >> THEN jobs ELSE Command(expected[1])
                  /\ (expected = << >> =>
                         entity'.swing_mode = entity.swing_mode)]_vars

\* An unsupported swing mode has been refused while the mirror shows the
\* vertical swing.
C13_Witness ==
    /\ hist.op = "async_set_swing_mode"
    /\ hist.arg = "horizontal"
    /\ entity.swing_mode = SWING_VERTICAL
    /\ jobs = EmptyBag

(***************************************************************************)
(* Claims about the lookup tables                                          *)
(***************************************************************************)

\* C14: the device-to-entity mappers invert the command tables and are
\* total: a status whose mode is the code async_set_hvac_mode uses for a
\* supported HVAC mode is mirrored as that mode, a status whose fan is the
\* code async_set_fan_mode sends for a fan mode is mirrored as that fan
\* mode, and every other code is mirrored as off (HVAC) or "auto" (fan).
C14_MappersInvertTables ==
    (hist.op = "update_entity_properties" /\ jobs = EmptyBag) =>
        LET port1 == dev.port1 IN
        /\ \A m \in hvac_modes :
               port1.mode = hvac_mode_mapping(m) => entity.hvac_mode = m
        /\ (\A m \in hvac_modes : port1.mode # hvac_mode_mapping(m))
               => entity.hvac_mode = HVAC_OFF
        /\ \A f \in fan_modes :
               port1.fan = fan_mode_mapping(f) => entity.fan_mode = f
        /\ (\A f \in fan_modes : port1.fan # fan_mode_mapping(f))
               => entity.fan_mode = "auto"
        /\ \A m \in hvac_modes : map_hvac_mode(hvac_mode_mapping(m)) = m
        /\ \A f \in fan_modes : map_fan_speed(fan_mode_mapping(f)) = f

\* A status with the codes sent for fan_only and medium_high is mirrored as
\* fan_only and medium_high.
C14_Witness ==
    /\ hist.op = "update_entity_properties" /\ jobs = EmptyBag
    /\ dev.port1.mode = 6 /\ dev.port1.fan = 6
    /\ entity.hvac_mode = HVAC_FAN_ONLY
    /\ entity.fan_mode = "medium_high"

(***************************************************************************)
(* Claims about the platform setup                                         *)
(***************************************************************************)

\* C15: with a device key in the config entry, async_setup_entry adds
\* exactly one entity whatever the status read gave (an exception, a
\* timeout, a network error, a status without port1 data) and returns
\* normally; the entity is available if and only if the read returned a
\* non-empty port1 section, and only then update_entity_properties is
\* called, once, with the status that was read.
C15_SetupAlwaysAddsEntity ==
    [][\A job \in InFlight :
          ClimateSetupFinish(job) =>
              LET port1_read == /\ job.res.kind = "dict"
                                /\ job.res.status.has_port1
                                /\ job.res.status.port1 # EmptyPort
              IN  /\ hass.added = 0 /\ hass'.added = 1
                  /\ hist'.op = "async_setup_entry_done"
                  /\ entity'.available = port1_read
                  /\ hass'.updates = IF port1_read THEN <<job.res.status>>
                                     ELSE << >>
                  /\ (port1_read =>
                         entity' = update_entity_properties(NewEntity, job.res.status))]_vars

\* The read has returned a status with an empty port1 section: one entity
\* was added, unavailable, and update_entity_properties was not called.
C15_Witness ==
    /\ hist.op = "async_setup_entry_done"
    /\ hist.arg = "dict"
    /\ dev.has_port1
    /\ hass.added = 1 /\ hass.updates = << >>
    /\ ~entity.available

\* C16: with no device key in the config entry, async_setup_entry adds no
\* entity and reads no device status.
C16_NoKeyNoEntity ==
    ~hass.has_key =>
        /\ hass.added = 0
        /\ hass.reads = 0
        /\ jobs = EmptyBag
        /\ hass.updates = << >>

\* async_setup_entry has returned for an entry without a device key.
C16_Witness ==
    /\ hist.op = "async_setup_entry_no_key"
    /\ ~hass.has_key
    /\ hass.added = 0 /\ hass.reads = 0

(***************************************************************************)
(* Claims about the coordinator                                            *)
(***************************************************************************)

\* C17: _async_update_data returns an empty dict, without raising, when the
\* update method returns a value that is not a dict and when the update
\* method raises an exception.
C17_FailedRefreshReturnsEmptyDict ==
    [][\A job \in InFlight :
          (CoordinatorRefreshFinish(job) /\ job.res.kind # "dict")
          => hass'.refresh = Returned(EmptyDict)]_vars

\* C18: _async_update_data returns the update method's result unchanged
\* whenever that result is a dict.
C18_RefreshReturnsData ==
    [][\A job \in InFlight :
          (CoordinatorRefreshFinish(job) /\ job.res.kind = "dict")
          => hass'.refresh = Returned(job.res.status)]_vars

\* _async_update_data has returned a dict with a port1 section.
C18_Witness ==
    /\ hist.op = "_async_update_data"
    /\ hist.arg = "dict"
    /\ hass.refresh.kind = "dict"
    /\ hass.refresh.status.has_port1
    /\ hass.refresh.status.port1.temperature = 24

(***************************************************************************)
(* Claims about the integration                                            *)
(***************************************************************************)

\* C19: async_setup_entry stores the entry's data under
\* hass.data[DOMAIN][entry_id] and returns True, async_unload_entry removes
\* that key, and after any sequence of setups and unloads of distinct
\* entries hass.data[DOMAIN] holds exactly the entries that were set up and
\* not yet unloaded.
C19_DataHoldsLoadedEntries ==
    /\ {[entry_id |-> k, data |-> hass.data[k]] : k \in DOMAIN hass.data}
           = hass.loaded
    /\ (hist.op = "async_setup_entry" =>
           /\ hass.result = "True"
           /\ hist.arg \in DOMAIN hass.data)
    /\ (hist.op = "async_unload_entry" => hist.arg \notin DOMAIN hass.data)
    /\ (hass.loaded # {} => hass.has_domain)

\* The second of three entries has been unloaded and the other two are
\* still stored.
C19_Witness ==
    /\ hist.op = "async_unload_entry"
    /\ hist.arg = 2
    /\ DOMAIN hass.data = {1, 3}
    /\ hass.data[1].has_key /\ ~hass.data[3].has_key

(***************************************************************************)
(* Claims about the skip flag                                              *)
(***************************************************************************)

\* C20: the skip flag is set only by a locally issued command: a poll tick
\* finds it set, and reads no status, only when a command has succeeded
\* since the poll tick before; a successful poll by itself never makes a
\* later poll tick skip its read.
C20_SkipOnlyAfterCommand ==
    [][AsyncUpdateSkip => hist.cmd_pending]_vars

\* C21: each setting of the skip flag suppresses at most one poll tick: when
\* a poll tick was skipped and no command has succeeded since, the next poll
\* tick reads the device, so of two consecutive poll ticks with no command
\* between them at least one reads the device.
C21_NoTwoSkipsInARow ==
    [][(PollTick /\ hist.last_tick = "skip" /\ ~hist.cmd_pending)
          => AsyncUpdateStart]_vars

(***************************************************************************)
(* Claims about the mirrored state                                         *)
(***************************************************************************)

\* C22: the two synchronization paths agree: a port1 payload applied as a
\* command response by set_thing_state gives the same mirrored power, HVAC
\* mode, temperatures, fan, swing and preset as update_entity_properties
\* gives for it from the same prior state.
C22_SyncPathsAgree ==
    [][\A job \in InFlight :
          (SetThingStateFinish(job) /\ job.res.kind = "dict")
          => Mirror(entity') =
                 Mirror(update_entity_properties(entity, job.res.status))]_vars

\* C23: in every state reached from the constructed entity by polls,
\* successful and failed commands and rejected requests, a mirrored power
\* state that is 0 or absent goes with the mirrored HVAC mode off.
C23_PowerOffShowsModeOff ==
    entity.power_state \in {0, None} => entity.hvac_mode = HVAC_OFF

\* A command's response has reported the power off with the mode cool, and
\* the mirror shows the mode off.
C23_Witness ==
    /\ hist.op = "set_thing_state_ok"
    /\ dev.has_port1 /\ dev.port1.power = 0 /\ dev.port1.mode = 3
    /\ entity.power_state = 0
    /\ entity.hvac_mode = HVAC_OFF

(***************************************************************************)
(* Claims about the temperature and preset requests                        *)
(***************************************************************************)

\* C24: every temperature async_set_temperature sends to the device lies
\* within the advertised range min_temp..max_temp, whatever the mirrored
\* HVAC mode is.
C24_SentTemperatureInRange ==
    (hist.op = "async_set_temperature" /\ hist.sent # << >>) =>
        /\ min_temp <= hist.sent[1].temperature
        /\ hist.sent[1].temperature <= max_temp

\* C25: when async_set_temperature rejects a request (a temperature out of
\* 16..32 in cool mode, any temperature in fan_only or dry mode), the
\* mirrored target temperature is the value it had before the request.
C25_RejectedTemperatureReverted ==
    [][\A temperature \in TemperatureRequests \ {None} :
          (SetTemperature(temperature) /\ hist'.sent = << >>)
          => entity'.target_temperature = entity.target_temperature]_vars

\* The preset a preset command's payload asks for.
RequestedPreset(data) ==
    IF data.econo = 1 THEN PRESET_ECO
    ELSE IF data.powerchill = 1 THEN PRESET_BOOST
    ELSE PRESET_NONE

\* C26: async_set_preset_mode changes the mirrored preset optimistically
\* and does not roll it back: with the power state 1 and a supported preset
\* the mirrored preset is the requested one from the request on, and still
\* when the call returns after the device command has failed.
C26_PresetNotRolledBack ==
    [][/\ \A preset_mode \in {PRESET_NONE, PRESET_ECO, PRESET_BOOST} :
             (SetPresetMode(preset_mode) /\ entity.power_state = 1)
             => entity'.preset_mode = preset_mode
       /\ \A job \in InFlight :
             (/\ SetThingStateFinish(job)
              /\ job.res.kind # "dict"
              /\ job.data.econo # None)
             => entity'.preset_mode = RequestedPreset(job.data)]_vars

\* A command for the preset eco has failed: the mirror shows eco while the
\* device, switched on, reports no preset.
C26_Witness ==
    /\ hist.op = "set_thing_state_failed"
    /\ hist.arg = PRESET_ECO
    /\ entity.preset_mode = PRESET_ECO
    /\ entity.power_state = 1
    /\ dev.has_port1 /\ dev.port1.econo = 0 /\ dev.port1.power = 1

(***************************************************************************)
(* Claims about what commands and requests leave alone                     *)
(***************************************************************************)

\* The names the request handlers leave in the history.
RequestOps ==
    {"async_set_hvac_mode", "async_set_fan_mode", "async_set_temperature",
     "async_set_preset_mode", "async_set_swing_mode"}

\* C27: no command operation changes availability: set_thing_state,
\* successful or failed, and the request handlers leave it as it was; an
\* unavailable entity becomes available only in the step in which a poll
\* that was not skipped resumes with a status, and the first poll tick after
\* a successful command, being skipped, leaves the availability alone.
C27_CommandsKeepAvailability ==
    [][/\ \A job \in InFlight :
             SetThingStateFinish(job) => entity'.available = entity.available
       /\ hist'.op \in RequestOps => entity'.available = entity.available
       /\ (~entity.available /\ entity'.available)
             => \E job \in InFlight :
                    AsyncUpdateFinish(job) /\ job.res.kind = "dict"
       /\ (hist.cmd_pending /\ PollTick)
             => entity'.available = entity.available]_vars

\* A command has succeeded on an entity that a failed poll had made
\* unavailable, and the entity is still unavailable.
C27_Witness ==
    /\ hist.op = "set_thing_state_ok"
    /\ ~entity.available
    /\ entity.skip_update
    /\ entity.power_state = 1

\* C28: the skip flag becomes true only in the step in which a command or a
\* poll resumes with the device's answer: a request rejected locally, a
\* failed command and a failed poll leave the flag at the value it had.
C28_SkipFlagNeedsDeviceAnswer ==
    [][/\ (~entity.skip_update /\ entity'.skip_update)
             => \E job \in InFlight :
                    /\ SetThingStateFinish(job) \/ AsyncUpdateFinish(job)
                    /\ job.res.kind = "dict"
       /\ \A job \in InFlight :
             (/\ SetThingStateFinish(job) \/ AsyncUpdateFinish(job)
              /\ job.res.kind # "dict")
             => entity'.skip_update = entity.skip_update
       /\ (hist'.op \in RequestOps /\ hist'.sent = << >>)
             => entity'.skip_update = entity.skip_update]_vars

\* A poll has failed on an entity whose skip flag was clear, and the flag
\* is still clear.
C28_Witness ==
    /\ hist.op = "async_update_failed"
    /\ ~entity.available
    /\ ~entity.skip_update

(***************************************************************************)
(* Claims about recovery                                                   *)
(***************************************************************************)

\* The entity is available and mirrors the state derived from the device's
\* status.
Recovered ==
    /\ entity.available
    /\ Mirror(entity) = Mirror(update_entity_properties(entity, dev))

\* C29: once the device has settled (every status read succeeds, its state
\* stops changing, no further command is issued), the entity eventually is
\* available with the mirrored state derived from the device's status, and
\* stays so.
C29_EntityRecovers == [](hass.settled => <>[]Recovered)

\* After the device has settled a poll has made an unavailable entity
\* available, and the mirror shows the device switched on.
C29_Witness ==
    /\ hass.settled
    /\ hist.op = "async_update_ok" /\ hist.arg = "unavailable"
    /\ Recovered
    /\ entity.power_state = 1

====
